---- MODULE Spec2Model ----
(***************************************************************************)
(* Model of the exoplanet prediction backend (backend/app).                *)
(*                                                                         *)
(* Numbers.  Every numeric observation value, bound and default is held    *)
(* as an integer number of TENTHS (10.0 days = 100, 0.5 = 5, 7 = 70), so   *)
(* that the comparisons of validate_input are exact integer comparisons.   *)
(* Class probabilities returned by a sub-model are held in tenths          *)
(* (<<7, 2, 1>> = [0.7, 0.2, 0.1]); the blend 0.6*rf + 0.4*xgb is held in   *)
(* hundredths (6*rf + 4*xgb).                                              *)
(*                                                                         *)
(* Python values.  A dict value is a record [kind, v]: kind "num" is a     *)
(* number (v in tenths), kind "none" is None, kind "str" is a non-empty,   *)
(* non-numeric string.  A dict is a function whose DOMAIN is its key set;  *)
(* its iteration order is the order of FieldOrder.                         *)
(***************************************************************************)
EXTENDS Integers, Sequences, FiniteSets, TLC

VARIABLES
    files,      \* the artifact directory MODEL_PATH, as the loader finds it
    stores,     \* per route module: the predictor held by its get_predictor
    loads,      \* number of SecureExoplanetPredictor constructions so far
    loading,    \* the route module whose predictor is being constructed, or "none"
    batch,      \* the predict_batch call in progress (or idle)
    response,   \* the response to the current request (NoResponse until it is sent)
    probaCalls, \* number of predict_proba invocations made for the current request
    vin,        \* validate_input harness: the store's bounds table and the observation
    vout        \* validate_input harness: the warnings returned

vars == <<files, stores, loads, loading, batch, response, probaCalls, vin, vout>>

(***************************************************************************)
(* Python values                                                           *)
(***************************************************************************)
Num(n) == [kind |-> "num", v |-> n]
None == [kind |-> "none", v |-> 0]
Str == [kind |-> "str", v |-> 0]

\* dict.get(key, default) with a numeric default (in tenths)
Get(data, key, default) == IF key \in DOMAIN data THEN data[key] ELSE Num(default)

\* the keys an observation may carry, in dict iteration order
FieldOrder ==
    <<"koi_period", "koi_depth", "koi_duration", "koi_impact", "koi_model_snr",
      "koi_prad", "koi_srad">>

Fields == {FieldOrder[i] : i \in DOMAIN FieldOrder}

Abs(x) == IF x < 0 THEN -x ELSE x

(***************************************************************************)
(* validate_input                                                          *)
(* A validation state is [w, raised]: the warnings appended so far and     *)
(* whether an exception has left the try block (every later statement of   *)
(* the try block is then skipped).                                         *)
(***************************************************************************)
Warn(kind, feature) == [kind |-> kind, feature |-> feature]

Add(st, kind, feature) == [st EXCEPT !.w = Append(@, Warn(kind, feature))]

Raise(st) == [st EXCEPT !.raised = TRUE]

\* the hardcoded fallback bounds table
FallbackBounds ==
    [koi_period |-> [min |-> 1, max |-> 100000],
     koi_depth |-> [min |-> 1, max |-> 1000000],
     koi_duration |-> [min |-> 1, max |-> 480],
     koi_model_snr |-> [min |-> 10, max |-> 10000]]

\* a bounds table is [kind |-> "None"] (never assigned) or [kind |-> "dict", table]
NoBounds == [kind |-> "None", table |-> <<>>]
BoundsOf(table) == [kind |-> "dict", table |-> table]

\* one iteration of the required-feature loop
RequiredCheck(data, st, feature) ==
    IF st.raised THEN st
    ELSE IF feature \notin DOMAIN data \/ data[feature].kind = "none"
         THEN Add(st, "missing", feature)
    ELSE IF data[feature].kind = "str" THEN Raise(st)
    ELSE IF data[feature].v <= 0 THEN Add(st, "not_positive", feature)
    ELSE st

CheckRequired(data, st) ==
    RequiredCheck(data,
        RequiredCheck(data, RequiredCheck(data, st, "koi_period"), "koi_depth"),
        "koi_duration")

\* one iteration of the bounds loop
BoundsCheck(bounds, data, st, feature) ==
    IF st.raised \/ feature \notin DOMAIN data THEN st
    ELSE IF feature \in DOMAIN bounds.table /\ data[feature].kind # "none"
         THEN IF data[feature].kind = "str" THEN Raise(st)
              ELSE IF data[feature].v < bounds.table[feature].min
                      \/ data[feature].v > bounds.table[feature].max
                   THEN Add(st, "out_of_bounds", feature)
                   ELSE st
    ELSE st

RECURSIVE BoundsLoop(_, _, _, _)
BoundsLoop(bounds, data, st, i) ==
    IF i > Len(FieldOrder) THEN st
    ELSE BoundsLoop(bounds, data, BoundsCheck(bounds, data, st, FieldOrder[i]), i + 1)

CheckBounds(bounds, data, st) ==
    IF st.raised THEN st
    ELSE IF bounds.kind = "dict" /\ DOMAIN bounds.table # {}
         THEN BoundsLoop(bounds, data, st, 1)
    ELSE st

\* duration/24/period > 0.1, i.e. 10*duration > 24*period
CheckDuration(data, st) ==
    LET period == Get(data, "koi_period", 0)
        duration == Get(data, "koi_duration", 0)
    IN  IF st.raised THEN st
        ELSE IF period.kind # "num" THEN Raise(st)
        ELSE IF period.v <= 0 THEN st
        ELSE IF duration.kind # "num" THEN Raise(st)
        ELSE IF duration.v <= 0 THEN st
        ELSE IF 10 * duration.v > 24 * period.v THEN Add(st, "duration_long", "")
        ELSE st

\* abs(depth - expected) > 2 * expected with expected = (prad/srad)^2 * 1e6 ppm;
\* in tenths, multiplied through by 10 * srad^2
DepthFlagged(depth, prad, srad) ==
    Abs(depth * srad * srad - prad * prad * 10000000) > 2 * prad * prad * 10000000

CheckDepth(data, st) ==
    LET depth == Get(data, "koi_depth", 0)
        prad == Get(data, "koi_prad", 10)
        srad0 == Get(data, "koi_srad", 10)
        srad == IF srad0.kind = "none" \/ (srad0.kind = "num" /\ srad0.v = 0)
                THEN Num(10) ELSE srad0
    IN  IF st.raised THEN st
        ELSE IF depth.kind # "num" THEN Raise(st)
        ELSE IF depth.v <= 0 THEN st
        ELSE IF prad.kind = "none" \/ (prad.kind = "num" /\ prad.v = 0) THEN st
        ELSE IF prad.kind = "str" THEN Raise(st)
        ELSE IF prad.v < 0 THEN st
        ELSE IF srad.kind = "str" THEN Raise(st)
        ELSE IF DepthFlagged(depth.v, prad.v, srad.v) THEN Add(st, "depth_inconsistent", "")
        ELSE st

CheckSnr(data, st) ==
    LET snr == Get(data, "koi_model_snr", 0)
    IN  IF st.raised THEN st
        ELSE IF snr.kind # "num" THEN Raise(st)
        ELSE IF snr.v < 70 THEN Add(st, "low_snr", "")
        ELSE st

validate_input(bounds, data) ==
    LET st0 == [w |-> <<>>, raised |-> FALSE]
        st == CheckSnr(data, CheckDepth(data, CheckDuration(data,
                  CheckBounds(bounds, data, CheckRequired(data, st0)))))
    IN  IF st.raised THEN Append(st.w, Warn("validation_error", "")) ELSE st.w

(***************************************************************************)
(* engineer_features                                                       *)
(* A feature vector is [columns, zero, base]: its column names in order,    *)
(* whether it is the all-zero fallback frame, and the base values after     *)
(* default filling.  The eleven engineered columns are fixed closed-form    *)
(* expressions of the base columns, so base determines the whole row.       *)
(***************************************************************************)
\* mutant of all_features: koi_score left out of the list
all_features_WithoutScore ==
    <<"koi_period", "koi_depth", "koi_duration", "koi_impact", "koi_model_snr",
      "koi_prad", "koi_teq", "koi_insol", "koi_steff", "koi_slogg", "koi_srad",
      "koi_fpflag_nt", "koi_fpflag_ss", "koi_fpflag_co", "koi_fpflag_ec",
      "period_impact_ratio", "depth_duration_ratio", "snr_per_ppm",
      "planet_temp_ratio", "stellar_density", "transit_probability",
      "planet_density_proxy", "equilibrium_flux", "impact_depth_product",
      "period_snr_ratio", "duration_impact_ratio">>

all_features ==
    <<"koi_period", "koi_depth", "koi_duration", "koi_impact", "koi_model_snr",
      "koi_prad", "koi_teq", "koi_insol", "koi_steff", "koi_slogg", "koi_srad",
      "koi_fpflag_nt", "koi_fpflag_ss", "koi_fpflag_co", "koi_fpflag_ec",
      "koi_score",
      "period_impact_ratio", "depth_duration_ratio", "snr_per_ppm",
      "planet_temp_ratio", "stellar_density", "transit_probability",
      "planet_density_proxy", "equilibrium_flux", "impact_depth_product",
      "period_snr_ratio", "duration_impact_ratio">>

\* the keys of the feature_defaults dict, in its order
BaseFeatures ==
    <<"koi_period", "koi_depth", "koi_duration", "koi_impact", "koi_model_snr",
      "koi_prad", "koi_teq", "koi_insol", "koi_steff", "koi_slogg", "koi_srad",
      "koi_fpflag_nt", "koi_fpflag_ss", "koi_fpflag_co", "koi_fpflag_ec",
      "koi_score">>

\* the columns engineer_features computes, in the order it assigns them
EngineeredFeatures ==
    <<"period_impact_ratio", "depth_duration_ratio", "snr_per_ppm",
      "planet_temp_ratio", "stellar_density", "transit_probability",
      "planet_density_proxy", "equilibrium_flux", "impact_depth_product",
      "period_snr_ratio", "duration_impact_ratio">>

\* the columns of df once the defaults and the engineered columns are in place
DataFrameColumns(data) ==
    (DOMAIN data) \cup {BaseFeatures[i] : i \in DOMAIN BaseFeatures}
        \cup {EngineeredFeatures[i] : i \in DOMAIN EngineeredFeatures}

\* df[self.all_features] raises KeyError on a name that is not a column
SelectionFault(data) ==
    \E i \in DOMAIN all_features : all_features[i] \notin DataFrameColumns(data)

\* the defaults of the observation fields the model carries (tenths)
feature_defaults ==
    [koi_period |-> 100, koi_depth |-> 1000, koi_duration |-> 30,
     koi_impact |-> 5, koi_model_snr |-> 100, koi_prad |-> 10, koi_srad |-> 10]

\* a string in a column makes the arithmetic on that column raise
FeatureFault(data) == \E f \in DOMAIN data : data[f].kind = "str"

ZeroBase == [f \in Fields |-> 0]

FilledBase(data) ==
    [f \in Fields |->
        IF f \in DOMAIN data /\ data[f].kind = "num" THEN data[f].v
        ELSE feature_defaults[f]]

\* mutant of engineer_features: a fault leaves the default-filled row in place
engineer_features_FaultKeepsDefaults(data) ==
    [columns |-> all_features, zero |-> FALSE, base |-> FilledBase(data)]

engineer_features(data) ==
    IF FeatureFault(data) \/ SelectionFault(data)
    THEN [columns |-> all_features, zero |-> TRUE, base |-> ZeroBase]
    ELSE [columns |-> all_features, zero |-> FALSE, base |-> FilledBase(data)]

(***************************************************************************)
(* generate_light_curve_params                                             *)
(* period_days, depth_ppm, duration_hours, impact_parameter, baseline_flux  *)
(* and phase_offset in tenths; ingress/egress in thousandths of an hour;    *)
(* minimum_flux in units of 1e-7.                                           *)
(***************************************************************************)
LightCurveFallback ==
    [period_days |-> 100, depth_ppm |-> 1000, duration_hours |-> 30,
     impact_parameter |-> 5, ingress_duration |-> 450, egress_duration |-> 450,
     baseline_flux |-> 10, minimum_flux |-> 9999000, phase_offset |-> 0]

generate_light_curve_params(data) ==
    LET period == Get(data, "koi_period", 100)
        depth == Get(data, "koi_depth", 1000)
        duration == Get(data, "koi_duration", 30)
        impact == Get(data, "koi_impact", 5)
    IN  IF period.kind = "num" /\ depth.kind = "num"
           /\ duration.kind = "num" /\ impact.kind = "num"
        THEN [period_days |-> period.v, depth_ppm |-> depth.v,
              duration_hours |-> duration.v, impact_parameter |-> impact.v,
              ingress_duration |-> duration.v * 15,
              egress_duration |-> duration.v * 15,
              baseline_flux |-> 10, minimum_flux |-> 10000000 - depth.v,
              phase_offset |-> 0]
        ELSE LightCurveFallback

(***************************************************************************)
(* The artifacts of MODEL_PATH                                             *)
(* A sub-model is opaque to the predictor: predict_proba is a              *)
(* deterministic function of the feature row.  An artifact gives its       *)
(* outcome for the all-zero fallback row, for a row with koi_model_snr     *)
(* below 7 and for any other row; an outcome is a probability vector or    *)
(* an exception.                                                           *)
(***************************************************************************)
Probs(p) == [raises |-> FALSE, p |-> p]
Raises == [raises |-> TRUE, p |-> <<>>]

NoModel == [kind |-> "None", proba |-> <<>>, importances |-> <<>>]

RowClass(features) ==
    IF features.zero THEN "zero"
    ELSE IF features.base["koi_model_snr"] < 70 THEN "low"
    ELSE "high"

\* model.predict_proba(features_df); on None the attribute lookup raises
predict_proba(model, features) ==
    IF model.kind = "None" THEN Raises ELSE model.proba[RowClass(features)]

\* feature_importances_ of the fitted forests (thousandths), one per column
ImportancesA ==
    <<120, 90, 90, 10, 200, 60, 5, 5, 30, 5, 40, 80, 70, 20, 20, 50,
      15, 15, 10, 5, 5, 10, 5, 5, 10, 10, 10>>

ImportancesB ==
    <<40, 40, 40, 40, 40, 40, 40, 40, 40, 40, 40, 40, 40, 40, 40, 40,
      40, 40, 40, 40, 40, 40, 40, 40, 40, 0, 0>>

RandomForests ==
    {[kind |-> "model",
      proba |-> [zero |-> Probs(<<3, 3, 4>>), low |-> Probs(<<7, 2, 1>>),
                 high |-> Probs(<<1, 2, 7>>)],
      importances |-> ImportancesA],
     [kind |-> "model",
      proba |-> [zero |-> Raises, low |-> Probs(<<5, 5, 0>>),
                 high |-> Probs(<<2, 6, 2>>)],
      importances |-> ImportancesB]}

XGBoosts ==
    {[kind |-> "model",
      proba |-> [zero |-> Probs(<<2, 2, 6>>), low |-> Probs(<<6, 3, 1>>),
                 high |-> Probs(<<1, 1, 8>>)],
      importances |-> <<>>],
     [kind |-> "model",
      proba |-> [zero |-> Probs(<<4, 4, 2>>), low |-> Probs(<<5, 5, 0>>),
                 high |-> Raises],
      importances |-> <<>>]}

\* a file of MODEL_PATH: absent, unreadable (its load raises) or readable
Absent == [state |-> "absent", content |-> <<>>]
Corrupt == [state |-> "corrupt", content |-> <<>>]
File(content) == [state |-> "ok", content |-> content]

Labels == <<"FALSE POSITIVE", "CANDIDATE", "CONFIRMED">>

Item(label, idx) == [label |-> label, idx |-> idx]

\* ensemble_metadata: keyed_by says whether target_map is {label: index} or
\* {index: label}; items lists its entries in dict order
Metadata(has_map, keyed_by, items, has_names, names) ==
    [has_target_map |-> has_map, keyed_by |-> keyed_by, items |-> items,
     has_class_names |-> has_names, class_names |-> names]

Metadatas ==
    {Metadata(FALSE, "index", <<>>, FALSE, <<>>),
     Metadata(TRUE, "index",
         <<Item("FALSE POSITIVE", 0), Item("CANDIDATE", 1), Item("CONFIRMED", 2)>>,
         TRUE, Labels),
     Metadata(TRUE, "label",
         <<Item("FALSE POSITIVE", 0), Item("CANDIDATE", 1), Item("CONFIRMED", 2)>>,
         TRUE, Labels),
     Metadata(TRUE, "label",
         <<Item("CANDIDATE", 0), Item("CONFIRMED", 1), Item("FALSE POSITIVE", 2)>>,
         FALSE, <<>>),
     Metadata(TRUE, "label",
         <<Item("FALSE POSITIVE", 0), Item("CANDIDATE", 1), Item("CONFIRMED", 1)>>,
         TRUE, Labels),
     Metadata(TRUE, "index",
         <<Item("FALSE POSITIVE", 0), Item("CANDIDATE", 1), Item("CONFIRMED", 2),
           Item("UNKNOWN", 3)>>,
         TRUE, Labels),
     Metadata(TRUE, "index", <<Item("CANDIDATE", 1), Item("CONFIRMED", 2)>>,
         TRUE, Labels),
     Metadata(TRUE, "label", <<>>, TRUE, Labels),
     Metadata(TRUE, "index",
         <<Item("NOT PLANET", 0), Item("CANDIDATE", 1), Item("CONFIRMED", 2)>>,
         TRUE, <<"NOT PLANET", "CANDIDATE", "CONFIRMED">>)}

\* a features.model table narrower than the fallback one
CustomBounds ==
    [koi_period |-> [min |-> 5, max |-> 5000],
     koi_model_snr |-> [min |-> 50, max |-> 1000],
     koi_prad |-> [min |-> 5, max |-> 200]]

RfFiles == {Absent, Corrupt} \cup {File(m) : m \in RandomForests}
XgbFiles == {Absent, Corrupt} \cup {File(m) : m \in XGBoosts}
MetaFiles == {Absent, Corrupt} \cup {File(m) : m \in Metadatas}
BoundsFiles == {Absent, Corrupt, File(CustomBounds)}

\* the directories the model is run on: every combination of sub-model and bounds
\* files with a plain metadata file, and every metadata file with readable sub-models
PlainMetaFiles ==
    {Absent, Corrupt,
     File(Metadata(TRUE, "index",
         <<Item("FALSE POSITIVE", 0), Item("CANDIDATE", 1), Item("CONFIRMED", 2)>>,
         TRUE, Labels))}

Directories ==
    [rf : RfFiles, xgb : XgbFiles, meta : PlainMetaFiles, bounds : BoundsFiles]
    \cup [rf : {File(m) : m \in RandomForests}, xgb : {File(m) : m \in XGBoosts},
          meta : MetaFiles, bounds : BoundsFiles]

(***************************************************************************)
(* SecureExoplanetPredictor: construction and _load_models                 *)
(* pc is the position of the constructor: "none" (no instance yet),        *)
(* "unloaded" (fields initialised, _load_models not yet entered),          *)
(* "loading_*" (inside _load_models, about to read that artifact or to     *)
(* set models_loaded),                                                     *)
(* "returned" (_load_models has returned), "done" (__init__ has returned). *)
(***************************************************************************)
Modules == {"health", "prediction", "batch"}

DefaultTargetMap == [i \in 0..2 |-> Labels[i + 1]]

NoStore ==
    [id |-> "none", pc |-> "none", models_loaded |-> FALSE, rf_model |-> NoModel,
     xgb_model |-> NoModel, feature_bounds |-> NoBounds, rf_weight |-> 0,
     xgb_weight |-> 0, class_names |-> <<>>, target_map |-> <<>>,
     all_features |-> <<>>]

\* __init__ up to the call of _load_models; id names the get_predictor that owns the new object
NewStore(id) ==
    [id |-> id, pc |-> "unloaded", models_loaded |-> FALSE, rf_model |-> NoModel,
     xgb_model |-> NoModel, feature_bounds |-> NoBounds, rf_weight |-> 6,
     xgb_weight |-> 4, class_names |-> Labels, target_map |-> DefaultTargetMap,
     all_features |-> <<>>]

\* the except clause of _load_models
LoadFailed(s) == [s EXCEPT !.models_loaded = FALSE, !.pc = "returned"]

\* self._load_models() is entered
EnterLoad(s) == [s EXCEPT !.pc = "loading_rf"]

LoadRandomForest(s, file) ==
    IF file.state = "absent" THEN [s EXCEPT !.pc = "loading_xgb"]
    ELSE IF file.state = "corrupt" THEN LoadFailed(s)
    ELSE [s EXCEPT !.rf_model = file.content, !.pc = "loading_xgb"]

LoadXGBoost(s, file) ==
    IF file.state = "absent" THEN [s EXCEPT !.pc = "loading_meta"]
    ELSE IF file.state = "corrupt" THEN LoadFailed(s)
    ELSE [s EXCEPT !.xgb_model = file.content, !.pc = "loading_meta"]

\* new_target_map[int(index)] = label
PutItem(map, item) ==
    [k \in (DOMAIN map) \cup {item.idx} |-> IF k = item.idx THEN item.label ELSE map[k]]

RECURSIVE InvertItems(_, _, _)
InvertItems(items, i, map) ==
    IF i > Len(items) THEN map
    ELSE InvertItems(items, i + 1, PutItem(map, items[i]))

\* the loop over loaded_map.items(), for a map keyed by label or by index
NormalizeTargetMap(meta) ==
    IF meta.keyed_by = "label"
    THEN InvertItems(meta.items, 1, <<>>)
    ELSE InvertItems(meta.items, 1, <<>>)

LoadMetadata(s, file) ==
    IF file.state = "absent" THEN [s EXCEPT !.pc = "loading_bounds"]
    ELSE IF file.state = "corrupt" THEN LoadFailed(s)
    ELSE LET meta == file.content
             s1 == IF meta.has_target_map
                   THEN [s EXCEPT !.target_map = NormalizeTargetMap(meta)]
                   ELSE s
             s2 == IF meta.has_class_names
                   THEN [s1 EXCEPT !.class_names = meta.class_names]
                   ELSE s1
         IN  IF meta.has_target_map /\ Len(meta.items) = 0
             THEN LoadFailed(s)   \* next(iter({})) raises StopIteration
             ELSE [s2 EXCEPT !.pc = "loading_bounds"]

\* mutant of LoadBounds: an absent features.model is treated as a failed load
LoadBounds_AbsentFails(s, file) ==
    IF file.state = "absent" \/ file.state = "corrupt" THEN LoadFailed(s)
    ELSE [s EXCEPT !.feature_bounds = BoundsOf(file.content), !.pc = "loading_check"]

LoadBounds(s, file) ==
    IF file.state = "absent"
    THEN [s EXCEPT !.feature_bounds = BoundsOf(FallbackBounds), !.pc = "loading_check"]
    ELSE IF file.state = "corrupt" THEN LoadFailed(s)
    ELSE [s EXCEPT !.feature_bounds = BoundsOf(file.content), !.pc = "loading_check"]

\* mutant of CheckReady: one sub-model is enough
CheckReady_EitherModel(s) ==
    [s EXCEPT !.models_loaded = (s.rf_model.kind # "None" \/ s.xgb_model.kind # "None"),
              !.pc = "returned"]

CheckReady(s) ==
    [s EXCEPT !.models_loaded = (s.rf_model.kind # "None" /\ s.xgb_model.kind # "None"),
              !.pc = "returned"]

\* __init__ after _load_models
FinishInit(s) == [s EXCEPT !.all_features = all_features, !.pc = "done"]

StoreState(s) ==
    IF s.pc = "none" THEN "Absent"
    ELSE IF s.pc = "unloaded" THEN "Unloaded"
    ELSE IF s.pc \in {"loading_rf", "loading_xgb", "loading_meta", "loading_bounds",
                      "loading_check"}
         THEN "Loading"
    ELSE IF s.models_loaded THEN "Ready"
    ELSE "Degraded"

(***************************************************************************)
(* predict                                                                 *)
(* A PredictionResult holds confidence and probabilities in hundredths.    *)
(* predict returns [result, calls]: calls counts the predict_proba         *)
(* invocations it made.                                                    *)
(***************************************************************************)
ErrorResult(why) ==
    [prediction |-> "ERROR", confidence |-> 0, probabilities |-> [ERROR |-> 100],
     feature_importance |-> <<>>, validation_warnings |-> <<Warn(why, "")>>,
     light_curve_params |-> <<>>]

\* mutant of Blend: the forest's weight is applied to both sub-models
Blend_OneWeight(s, rf_probs, xgb_probs) ==
    [i \in 1..Len(rf_probs) |-> s.rf_weight * rf_probs[i] + s.rf_weight * xgb_probs[i]]

\* rf_weight * rf_probs + xgb_weight * xgb_probs
Blend(s, rf_probs, xgb_probs) ==
    [i \in 1..Len(rf_probs) |-> s.rf_weight * rf_probs[i] + s.xgb_weight * xgb_probs[i]]

\* np.argmax: the index (from 0) of the first maximum
ArgMax(probs) ==
    (CHOOSE i \in 1..Len(probs) :
        /\ \A j \in 1..Len(probs) : probs[j] <= probs[i]
        /\ \A j \in 1..(i - 1) : probs[j] < probs[i]) - 1

\* {class_names[i]: prob for i, prob in enumerate(probs)}: a later duplicate key wins
ClassProbabilities(class_names, probs) ==
    [l \in {class_names[i] : i \in 1..Len(probs)} |->
        LET last == CHOOSE i \in 1..Len(probs) :
                        /\ class_names[i] = l
                        /\ \A j \in (i + 1)..Len(probs) : class_names[j] # l
        IN  probs[last]]

Min(a, b) == IF a < b THEN a ELSE b

\* dict(zip(all_features, importances)) as a sequence of (name, importance) entries
ZipImportance(names, importances) ==
    [i \in 1..Min(Len(names), Len(importances)) |->
        [name |-> names[i], importance |-> importances[i]]]

RemoveAt(seq, i) == SubSeq(seq, 1, i - 1) \o SubSeq(seq, i + 1, Len(seq))

\* mutant of FirstLargest: among equal importances the last entry is taken
RECURSIVE FirstLargest_LastOfEqual(_, _)
FirstLargest_LastOfEqual(items, i) ==
    IF i = 1 THEN 1
    ELSE LET best == FirstLargest_LastOfEqual(items, i - 1)
         IN  IF items[i].importance >= items[best].importance THEN i ELSE best

\* the index of the first entry of items[1..i] with the largest importance
RECURSIVE FirstLargest(_, _)
FirstLargest(items, i) ==
    IF i = 1 THEN 1
    ELSE LET best == FirstLargest(items, i - 1)
         IN  IF items[i].importance > items[best].importance THEN i ELSE best

\* sorted(items, key=importance, reverse=True)[:n]: stable, equal keys keep their order
RECURSIVE TopSorted(_, _)
TopSorted(items, n) ==
    IF n = 0 \/ Len(items) = 0 THEN <<>>
    ELSE LET first == FirstLargest(items, Len(items))
         IN  <<items[first]>> \o TopSorted(RemoveAt(items, first), n - 1)

FeatureImportance(s) == TopSorted(ZipImportance(s.all_features, s.rf_model.importances), 10)

\* mutant of Score: the confidence is read from the forest's distribution
Score_ConfidenceFromForest(s, data, warnings, rf_probs, xgb_probs) ==
    LET ensemble_probs == Blend(s, rf_probs, xgb_probs)
        predicted_class == ArgMax(ensemble_probs)
    IN  IF predicted_class \notin DOMAIN s.target_map
        THEN ErrorResult("prediction_error")
        ELSE IF Len(s.class_names) < Len(ensemble_probs)
        THEN ErrorResult("prediction_error")
        ELSE [prediction |-> s.target_map[predicted_class],
              confidence |-> 10 * rf_probs[predicted_class + 1],
              probabilities |-> ClassProbabilities(s.class_names, ensemble_probs),
              feature_importance |-> FeatureImportance(s),
              validation_warnings |-> warnings,
              light_curve_params |-> generate_light_curve_params(data)]

\* mutant of Score: a class index without a label is given the label UNKNOWN
Score_DefaultsLabel(s, data, warnings, rf_probs, xgb_probs) ==
    LET ensemble_probs == Blend(s, rf_probs, xgb_probs)
        predicted_class == ArgMax(ensemble_probs)
    IN  [prediction |-> IF predicted_class \in DOMAIN s.target_map
                        THEN s.target_map[predicted_class] ELSE "UNKNOWN",
         confidence |-> ensemble_probs[predicted_class + 1],
         probabilities |-> ClassProbabilities(s.class_names, ensemble_probs),
         feature_importance |-> FeatureImportance(s),
         validation_warnings |-> warnings,
         light_curve_params |-> generate_light_curve_params(data)]

\* the try block of predict once both sub-models have answered
Score(s, data, warnings, rf_probs, xgb_probs) ==
    LET ensemble_probs == Blend(s, rf_probs, xgb_probs)
        predicted_class == ArgMax(ensemble_probs)
    IN  IF predicted_class \notin DOMAIN s.target_map
        THEN ErrorResult("prediction_error")      \* KeyError
        ELSE IF Len(s.class_names) < Len(ensemble_probs)
        THEN ErrorResult("prediction_error")      \* IndexError
        ELSE [prediction |-> s.target_map[predicted_class],
              confidence |-> ensemble_probs[predicted_class + 1],
              probabilities |-> ClassProbabilities(s.class_names, ensemble_probs),
              feature_importance |-> FeatureImportance(s),
              validation_warnings |-> warnings,
              light_curve_params |-> generate_light_curve_params(data)]

\* the try block of predict
TryPredict(s, data) ==
    LET warnings == validate_input(s.feature_bounds, data)
        features_df == engineer_features(data)
        rf == predict_proba(s.rf_model, features_df)
        xgb == predict_proba(s.xgb_model, features_df)
    IN  IF rf.raises
        THEN [result |-> ErrorResult("prediction_error"), calls |-> 1]
        ELSE IF xgb.raises
        THEN [result |-> ErrorResult("prediction_error"), calls |-> 2]
        ELSE [result |-> Score(s, data, warnings, rf.p, xgb.p), calls |-> 2]

\* mutant of predict: the guard looks at the sub-models instead of models_loaded
predict_GuardOnModels(s, data) ==
    IF s.rf_model.kind = "None" \/ s.xgb_model.kind = "None"
    THEN [result |-> ErrorResult("models_not_loaded"), calls |-> 0]
    ELSE TryPredict(s, data)

\* mutant of predict: an observation with validation warnings is rejected
predict_RejectsInvalid(s, data) ==
    IF ~s.models_loaded
    THEN [result |-> ErrorResult("models_not_loaded"), calls |-> 0]
    ELSE IF Len(validate_input(s.feature_bounds, data)) > 0
    THEN [result |-> ErrorResult("prediction_error"), calls |-> 0]
    ELSE TryPredict(s, data)

predict(s, data) ==
    IF ~s.models_loaded
    THEN [result |-> ErrorResult("models_not_loaded"), calls |-> 0]
    ELSE TryPredict(s, data)

(***************************************************************************)
(* predict_batch                                                           *)
(***************************************************************************)
IdleBatch == [pc |-> "idle", data |-> <<>>, i |-> 0, results |-> <<>>]

\* mutant of AppendResult: a failed row is skipped instead of recorded
AppendResult_SkipErrors(results, result) ==
    IF result.prediction = "ERROR" THEN results ELSE Append(results, result)

\* results.append(result)
AppendResult(results, result) == Append(results, result)

\* mutant of BatchIteration: the warnings list is shared between calls, so a row's
\* result also carries the warnings of the rows before it
BatchIteration_SharedWarnings(s, b) ==
    LET r == predict(s, b.data[b.i + 1])
        carried == IF b.results = <<>> THEN <<>>
                   ELSE b.results[Len(b.results)].validation_warnings
        result == [r.result EXCEPT !.validation_warnings = carried \o @]
    IN  [step |-> [b EXCEPT !.results = AppendResult(@, result), !.i = @ + 1],
         calls |-> r.calls]

\* one iteration of the loop: predict never raises, so the except clause of the
\* loop body is not entered
BatchIteration(s, b) ==
    LET r == predict(s, b.data[b.i + 1])
    IN  [step |-> [b EXCEPT !.results = AppendResult(@, r.result), !.i = @ + 1],
         calls |-> r.calls]

(***************************************************************************)
(* The batch endpoint's result table                                       *)
(***************************************************************************)
\* the keys of class_counts
ClassCountKeys == {"CONFIRMED", "CANDIDATE", "FALSE POSITIVE", "ERROR"}

\* the fields of the original row the table rounds
RoundedFields == {"koi_period", "koi_depth", "koi_duration", "koi_model_snr"}

\* one iteration of the formatting loop: the row's status, or the exception raised
\* by class_counts[result.prediction] or by round() of a value that is no number
FormatRow(row, result) ==
    IF result.prediction = "ERROR" THEN "error"
    ELSE IF result.prediction \notin ClassCountKeys THEN "KeyError"
    ELSE IF \E f \in RoundedFields : f \in DOMAIN row /\ row[f].kind # "num"
         THEN "TypeError"
    ELSE "success"

\* the rows formatted before the loop ends or raises
Formatted(data, results) ==
    {i \in 1..Len(results) :
        \A j \in 1..(i - 1) : FormatRow(data[j], results[j]) \in {"error", "success"}}

\* round(x, ndigits) of a number carried in tenths: one or more decimals keep the
\* number, no decimals round to the nearest unit, halves to the even one
Round(x, ndigits) ==
    IF ndigits >= 1 THEN x
    ELSE LET q == x \div 10
             r == x % 10
         IN  IF r < 5 \/ (r = 5 /\ q % 2 = 0) THEN 10 * q ELSE 10 * (q + 1)

\* mutant of FormatEntry: a failed row's entry carries no input parameters
FormatEntry_ErrorRowsBlank(i, row, result) ==
    LET rounded(f, ndigits) == Num(Round(Get(row, f, 0).v, ndigits))
    IN  IF result.prediction # "ERROR"
        THEN [id |-> i, row |-> i, prediction |-> result.prediction,
              period |-> rounded("koi_period", 2),
              depth |-> rounded("koi_depth", 1),
              duration |-> rounded("koi_duration", 2),
              snr |-> rounded("koi_model_snr", 1),
              status |-> "success"]
        ELSE [id |-> i, row |-> i, prediction |-> "ERROR",
              period |-> Num(0), depth |-> Num(0),
              duration |-> Num(0), snr |-> Num(0),
              status |-> "error"]

\* the table entry appended for row i (1-based: enumerate's index + 1)
FormatEntry(i, row, result) ==
    LET rounded(f, ndigits) == Num(Round(Get(row, f, 0).v, ndigits))
    IN  IF result.prediction # "ERROR"
        THEN [id |-> i, row |-> i, prediction |-> result.prediction,
              period |-> rounded("koi_period", 2),
              depth |-> rounded("koi_depth", 1),
              duration |-> rounded("koi_duration", 2),
              snr |-> rounded("koi_model_snr", 1),
              status |-> "success"]
        ELSE [id |-> i, row |-> i, prediction |-> "ERROR",
              period |-> Get(row, "koi_period", 0),
              depth |-> Get(row, "koi_depth", 0),
              duration |-> Get(row, "koi_duration", 0),
              snr |-> Get(row, "koi_model_snr", 0),
              status |-> "error"]

\* the response of the endpoint: BatchResult, or HTTP 400 from its except clause
FormatResults(data, results) ==
    LET raised == {i \in Formatted(data, results) :
                      FormatRow(data[i], results[i]) \notin {"error", "success"}}
        done == Formatted(data, results) \ raised
        label(i) == IF results[i].prediction = "ERROR" THEN "ERROR"
                    ELSE results[i].prediction
    IN  IF raised # {}
        THEN [status |-> 400,
              exception |-> FormatRow(data[CHOOSE i \in raised : TRUE],
                                      results[CHOOSE i \in raised : TRUE]),
              total_processed |-> 0, successful_predictions |-> 0,
              failed_predictions |-> 0,
              class_distribution |-> [k \in ClassCountKeys |-> 0],
              results |-> <<>>]
        ELSE [status |-> 200,
              exception |-> "none",
              total_processed |-> Len(data),
              successful_predictions |->
                  Cardinality({i \in done : results[i].prediction # "ERROR"}),
              failed_predictions |->
                  Cardinality({i \in done : results[i].prediction = "ERROR"}),
              class_distribution |->
                  [k \in ClassCountKeys |-> Cardinality({i \in done : label(i) = k})],
              results |->
                  [i \in 1..Len(results) |-> FormatEntry(i, data[i], results[i])]]

(***************************************************************************)
(* Inputs                                                                  *)
(***************************************************************************)
MaxBatch == 2

ObsNominal ==
    ("koi_period" :> Num(100)) @@ ("koi_depth" :> Num(1000))
    @@ ("koi_duration" :> Num(30)) @@ ("koi_impact" :> Num(5))
    @@ ("koi_model_snr" :> Num(150))

ObsLowSnr == ("koi_model_snr" :> Num(30)) @@ ObsNominal

ObsNullPeriod == ("koi_period" :> None) @@ ObsLowSnr

ObsFault == ("koi_impact" :> Str) @@ ObsNominal

ObsEmpty == <<>>

Observations == {ObsNominal, ObsLowSnr, ObsNullPeriod, ObsFault, ObsEmpty}

BatchRows == {ObsNominal, ObsNullPeriod, ObsFault}

Batches == UNION {[1..n -> BatchRows] : n \in 0..MaxBatch}

(***************************************************************************)
(* The service: the three route modules, each with its own get_predictor   *)
(***************************************************************************)
NoResponse == [kind |-> "none"]

NotCalled == [called |-> FALSE, warnings |-> <<>>]

Idle == loading = "none" /\ batch.pc = "idle"

Init ==
    /\ files \in Directories
    /\ stores = [m \in Modules |-> NoStore]
    /\ loads = 0
    /\ loading = "none"
    /\ batch = IdleBatch
    /\ response = NoResponse
    /\ probaCalls = 0
    /\ vin = [bounds |-> NoBounds, data |-> <<>>]
    /\ vout = NotCalled

\* get_predictor of module m on its first use: create_predictor() begins
ConstructPredictor(m) ==
    /\ Idle
    /\ stores[m].pc = "none"
    /\ stores' = [stores EXCEPT ![m] = NewStore(m)]
    /\ loads' = loads + 1
    /\ loading' = m
    /\ response' = NoResponse
    /\ probaCalls' = 0
    /\ UNCHANGED <<files, batch, vin, vout>>

LoadAction(m, at, next) ==
    /\ loading = m
    /\ stores[m].pc = at
    /\ stores' = [stores EXCEPT ![m] = next]
    /\ UNCHANGED <<files, loads, loading, batch, response, probaCalls, vin, vout>>

BeginLoad(m) ==
    LoadAction(m, "unloaded", EnterLoad(stores[m]))

ReadRandomForest(m) ==
    LoadAction(m, "loading_rf", LoadRandomForest(stores[m], files.rf))

ReadXGBoost(m) ==
    LoadAction(m, "loading_xgb", LoadXGBoost(stores[m], files.xgb))

ReadMetadata(m) ==
    LoadAction(m, "loading_meta", LoadMetadata(stores[m], files.meta))

ReadBounds(m) ==
    LoadAction(m, "loading_bounds", LoadBounds(stores[m], files.bounds))

SetModelsLoaded(m) ==
    LoadAction(m, "loading_check", CheckReady(stores[m]))

ReturnPredictor(m) ==
    /\ loading = m
    /\ stores[m].pc = "returned"
    /\ stores' = [stores EXCEPT ![m] = FinishInit(@)]
    /\ loading' = "none"
    /\ UNCHANGED <<files, loads, batch, response, probaCalls, vin, vout>>

\* GET /health/detailed
DetailedHealthCheck ==
    LET s == stores["health"]
    IN  /\ Idle
        /\ s.pc = "done"
        /\ response' = [kind |-> "health", store |-> s.id,
                        status |-> IF s.models_loaded THEN "healthy" ELSE "degraded",
                        loaded |-> s.models_loaded]
        /\ probaCalls' = 0
        /\ UNCHANGED <<files, stores, loads, loading, batch, vin, vout>>

\* the explanation text, by its parts: the disposition the base sentence names, the
\* confidence it quotes, the first three ranked features and the number of warnings
_generate_explanation(result) ==
    LET pred == result.prediction
        top == result.feature_importance
    IN  [disposition |-> IF pred = "CONFIRMED" THEN "CONFIRMED"
                         ELSE IF pred = "CANDIDATE" THEN "CANDIDATE"
                         ELSE "FALSE POSITIVE",
         confidence |-> result.confidence,
         top_features |-> [i \in 1..Min(Len(top), 3) |-> top[i].name],
         warnings |-> Len(result.validation_warnings)]

\* mutant of PredictSingle: a failed prediction marks the models as not loaded
PredictSingle_MarksDegraded(data) ==
    LET s == stores["prediction"]
        r == predict(s, data)
    IN  /\ Idle
        /\ s.pc = "done"
        /\ response' = [kind |-> "predict", store |-> s.id, data |-> data,
                        result |-> r.result,
                        explanation |-> _generate_explanation(r.result)]
        /\ probaCalls' = r.calls
        /\ stores' = [stores EXCEPT !["prediction"].models_loaded =
                          @ /\ r.result.prediction # "ERROR"]
        /\ UNCHANGED <<files, loads, loading, batch, vin, vout>>

\* POST /predict
PredictSingle(data) ==
    LET s == stores["prediction"]
        r == predict(s, data)
    IN  /\ Idle
        /\ s.pc = "done"
        /\ response' = [kind |-> "predict", store |-> s.id, data |-> data,
                        result |-> r.result,
                        explanation |-> _generate_explanation(r.result)]
        /\ probaCalls' = r.calls
        /\ UNCHANGED <<files, stores, loads, loading, batch, vin, vout>>

\* POST /batch-predict: predictor.predict_batch(batch_data) is entered
BatchPredict(rows) ==
    /\ Idle
    /\ stores["batch"].pc = "done"
    /\ batch' = [pc |-> "loop", data |-> rows, i |-> 0, results |-> <<>>]
    /\ response' = NoResponse
    /\ probaCalls' = 0
    /\ UNCHANGED <<files, stores, loads, loading, vin, vout>>

BatchStep ==
    LET it == BatchIteration(stores["batch"], batch)
    IN  /\ batch.pc = "loop"
        /\ batch.i < Len(batch.data)
        /\ batch' = it.step
        /\ probaCalls' = probaCalls + it.calls
        /\ UNCHANGED <<files, stores, loads, loading, response, vin, vout>>

BatchReturn ==
    /\ batch.pc = "loop"
    /\ batch.i = Len(batch.data)
    /\ response' = [kind |-> "batch", store |-> stores["batch"].id,
                    data |-> batch.data, results |-> batch.results,
                    http |-> FormatResults(batch.data, batch.results)]
    /\ batch' = IdleBatch
    /\ UNCHANGED <<files, stores, loads, loading, probaCalls, vin, vout>>

Next ==
    \/ \E m \in Modules : ConstructPredictor(m)
    \/ \E m \in Modules : BeginLoad(m)
    \/ \E m \in Modules : ReadRandomForest(m)
    \/ \E m \in Modules : ReadXGBoost(m)
    \/ \E m \in Modules : ReadMetadata(m)
    \/ \E m \in Modules : ReadBounds(m)
    \/ \E m \in Modules : SetModelsLoaded(m)
    \/ \E m \in Modules : ReturnPredictor(m)
    \/ DetailedHealthCheck
    \/ \E data \in Observations : PredictSingle(data)
    \/ \E rows \in Batches : BatchPredict(rows)
    \/ BatchStep
    \/ BatchReturn

Spec == Init /\ [][Next]_vars

(***************************************************************************)
(* predict_batch called on three rows: the batch module's predictor has    *)
(* been constructed from the directory and every request is a batch of     *)
(* three rows.                                                             *)
(***************************************************************************)
\* the constructor run from position s.pc to its return
RECURSIVE RunConstructor(_, _)
RunConstructor(s, dir) ==
    IF s.pc = "unloaded" THEN RunConstructor(EnterLoad(s), dir)
    ELSE IF s.pc = "loading_rf" THEN RunConstructor(LoadRandomForest(s, dir.rf), dir)
    ELSE IF s.pc = "loading_xgb" THEN RunConstructor(LoadXGBoost(s, dir.xgb), dir)
    ELSE IF s.pc = "loading_meta" THEN RunConstructor(LoadMetadata(s, dir.meta), dir)
    ELSE IF s.pc = "loading_bounds" THEN RunConstructor(LoadBounds(s, dir.bounds), dir)
    ELSE IF s.pc = "loading_check" THEN RunConstructor(CheckReady(s), dir)
    ELSE IF s.pc = "returned" THEN FinishInit(s)
    ELSE s

\* create_predictor(): SecureExoplanetPredictor(model_path), held by module id
create_predictor(id, dir) == RunConstructor(NewStore(id), dir)

TripleBatches == [1..3 -> BatchRows]

InitTriple ==
    /\ files \in Directories
    /\ stores = [m \in Modules |->
                    IF m = "batch" THEN create_predictor(m, files) ELSE NoStore]
    /\ loads = 1
    /\ loading = "none"
    /\ batch = IdleBatch
    /\ response = NoResponse
    /\ probaCalls = 0
    /\ vin = [bounds |-> NoBounds, data |-> <<>>]
    /\ vout = NotCalled

NextTriple ==
    \/ \E rows \in TripleBatches : BatchPredict(rows)
    \/ BatchStep
    \/ BatchReturn

SpecTriple == InitTriple /\ [][NextTriple]_vars

(***************************************************************************)
(* validate_input called on its own: the observation and the store's       *)
(* bounds table are drawn from the sets below and validate_input is        *)
(* applied once.                                                           *)
(***************************************************************************)
Missing == [kind |-> "absent", v |-> 0]

\* the dict holding the keys whose choice is not Missing
Observation(choice) ==
    [f \in {g \in DOMAIN choice : choice[g].kind # "absent"} |-> choice[f]]

ValidateObservations ==
    {Observation(c) : c \in
        [koi_period : {Missing, None, Num(0), Num(10), Num(100)},
         koi_depth : {Missing, None, Num(1000), Num(250000), Num(400000)},
         koi_duration : {Missing, None, Num(30), Num(480)},
         koi_impact : {Missing, Num(5)},
         koi_model_snr : {Missing, None, Str, Num(30), Num(70), Num(150)},
         koi_prad : {Missing, None, Num(1), Num(10)},
         koi_srad : {Missing, Num(10)}]}

\* feature_bounds of a store: never assigned, the fallback table, or a loaded table
ValidateBounds == {NoBounds, BoundsOf(FallbackBounds), BoundsOf(CustomBounds)}

InitValidate ==
    /\ files = [rf |-> Absent, xgb |-> Absent, meta |-> Absent, bounds |-> Absent]
    /\ stores = [m \in Modules |-> NoStore]
    /\ loads = 0
    /\ loading = "none"
    /\ batch = IdleBatch
    /\ response = NoResponse
    /\ probaCalls = 0
    /\ vin \in [bounds : ValidateBounds, data : ValidateObservations]
    /\ vout = NotCalled

ValidateInput ==
    /\ ~vout.called
    /\ vout' = [called |-> TRUE, warnings |-> validate_input(vin.bounds, vin.data)]
    /\ UNCHANGED <<files, stores, loads, loading, batch, response, probaCalls, vin>>

NextValidate == ValidateInput

SpecValidate == InitValidate /\ [][NextValidate]_vars

(***************************************************************************)
(* generate_light_curve_params called on its own                           *)
(***************************************************************************)
LightCurveObservations ==
    {Observation(c) : c \in
        [koi_period : {Missing, None, Num(100), Num(3650)},
         koi_depth : {Missing, None, Num(1000), Num(250000)},
         koi_duration : {Missing, None, Num(30), Num(120)},
         koi_impact : {Missing, None, Str, Num(5), Num(9)}]}

InitLightCurve ==
    /\ files = [rf |-> Absent, xgb |-> Absent, meta |-> Absent, bounds |-> Absent]
    /\ stores = [m \in Modules |-> NoStore]
    /\ loads = 0
    /\ loading = "none"
    /\ batch = IdleBatch
    /\ response = NoResponse
    /\ probaCalls = 0
    /\ vin \in [bounds : {NoBounds}, data : LightCurveObservations]
    /\ vout = NotCalled

GenerateLightCurve ==
    /\ ~vout.called
    /\ vout' = [called |-> TRUE, warnings |-> <<>>,
                params |-> generate_light_curve_params(vin.data)]
    /\ UNCHANGED <<files, stores, loads, loading, batch, response, probaCalls, vin>>

NextLightCurve == GenerateLightCurve

SpecLightCurve == InitLightCurve /\ [][NextLightCurve]_vars

(***************************************************************************)
(* Server start: run.py checks the model directory, then the application   *)
(* starts and each route module constructs its predictor on first use.     *)
(* The directory also lists the two file names only check_models looks     *)
(* for; of those files only their presence matters.                        *)
(***************************************************************************)
\* Path.exists()
Exists(file) == file.state # "absent"

\* model_path / name
PathOf(dir, name) ==
    CASE name = "random_forest.model" -> dir.rf
      [] name = "xgboost.model" -> dir.xgb
      [] name = "ensemble_metadata.model" -> dir.meta
      [] name = "features.model" -> dir.bounds
      [] name = "random-forest.model" -> dir.rf_dashed
      [] name = "ensemble_metadata.pkl" -> dir.meta_pkl

required_models == <<"random-forest.model", "xgboost.model", "ensemble_metadata.pkl">>

\* check_models(): the names it reports missing and its return value
check_models(dir) ==
    LET missing == SelectSeq(required_models, LAMBDA name : ~Exists(PathOf(dir, name)))
    IN  [kind |-> "startup", missing_models |-> missing, all_found |-> Len(missing) = 0]

StartupDirectories ==
    {[rf |-> d.rf, xgb |-> d.xgb, meta |-> d.meta, bounds |-> d.bounds,
      rf_dashed |-> e.rf_dashed, meta_pkl |-> e.meta_pkl] :
        d \in Directories,
        e \in [rf_dashed : {Absent, File(<<>>)}, meta_pkl : {Absent, File(<<>>)}]}

InitStartup ==
    /\ files \in StartupDirectories
    /\ stores = [m \in Modules |-> NoStore]
    /\ loads = 0
    /\ loading = "none"
    /\ batch = IdleBatch
    /\ response = NoResponse
    /\ probaCalls = 0
    /\ vin = [bounds |-> NoBounds, data |-> <<>>]
    /\ vout = NotCalled

\* main(): models_ready = check_models()
CheckModels ==
    /\ response.kind = "none"
    /\ response' = check_models(files)
    /\ UNCHANGED <<files, stores, loads, loading, batch, probaCalls, vin, vout>>

\* the first request of module m after the server has started
StartModule(m) ==
    /\ response.kind = "startup"
    /\ stores[m].pc = "none"
    /\ stores' = [stores EXCEPT ![m] = create_predictor(m, files)]
    /\ loads' = loads + 1
    /\ UNCHANGED <<files, loading, batch, response, probaCalls, vin, vout>>

NextStartup ==
    \/ CheckModels
    \/ \E m \in Modules : StartModule(m)

SpecStartup == InitStartup /\ [][NextStartup]_vars

(***************************************************************************)
(* POST /batch-predict as one step, for uploads of any size: the upload is *)
(* a file name, a header and a number of rows that are copies of one row,  *)
(* so that the handler's answer is computed from one prediction.           *)
(***************************************************************************)
MAX_BATCH_SIZE == 10000

UploadSizes ==
    {0, 1, MAX_BATCH_SIZE - 1, MAX_BATCH_SIZE, MAX_BATCH_SIZE + 1, 2 * MAX_BATCH_SIZE}

Uploads ==
    [is_csv : BOOLEAN, has_required_cols : BOOLEAN, row : BatchRows, rows : UploadSizes]

\* the handler: the HTTP status, the number of rows handed to predict, and the
\* counters of the BatchResult it returns
predict_batch_endpoint(s, upload) ==
    LET rejected == [kind |-> "upload", upload |-> upload, status |-> 400,
                     predicted |-> 0, total_processed |-> 0,
                     successful_predictions |-> 0, failed_predictions |-> 0]
        result == predict(s, upload.row).result
        row_status == FormatRow(upload.row, result)
        n == upload.rows
    IN  IF ~upload.is_csv THEN rejected
        ELSE IF ~upload.has_required_cols THEN rejected
        ELSE IF n > 0 /\ row_status \notin {"error", "success"}
        THEN [rejected EXCEPT !.predicted = n]
        ELSE [kind |-> "upload", upload |-> upload, status |-> 200,
              predicted |-> n, total_processed |-> n,
              successful_predictions |-> IF row_status = "success" THEN n ELSE 0,
              failed_predictions |-> IF row_status = "error" THEN n ELSE 0]

InitUpload ==
    /\ files \in Directories
    /\ stores = [m \in Modules |->
                    IF m = "batch" THEN create_predictor(m, files) ELSE NoStore]
    /\ loads = 1
    /\ loading = "none"
    /\ batch = IdleBatch
    /\ response = NoResponse
    /\ probaCalls = 0
    /\ vin = [bounds |-> NoBounds, data |-> <<>>]
    /\ vout = NotCalled

UploadCsv(upload) ==
    /\ response' = predict_batch_endpoint(stores["batch"], upload)
    /\ UNCHANGED <<files, stores, loads, loading, batch, probaCalls, vin, vout>>

NextUpload == \E upload \in Uploads : UploadCsv(upload)

SpecUpload == InitUpload /\ [][NextUpload]_vars

(***************************************************************************)
(* Properties of validate_input                                            *)
(***************************************************************************)
HasWarning(warnings, kind) == \E i \in 1..Len(warnings) : warnings[i].kind = kind

IsNum(data, f) == f \in DOMAIN data /\ data[f].kind = "num"

\* what each check reports on its own, from the fields it reads
DurationCondition(data) ==
    /\ IsNum(data, "koi_period") /\ IsNum(data, "koi_duration")
    /\ data["koi_period"].v > 0 /\ data["koi_duration"].v > 0
    /\ 10 * data["koi_duration"].v > 24 * data["koi_period"].v

LowSnrCondition(data) == IsNum(data, "koi_model_snr") /\ data["koi_model_snr"].v < 70

\* C9: validate_input evaluates every check for every observation: whenever the
\* duration-vs-period condition or the low-SNR condition holds of the observation,
\* its warning is reported, whatever an earlier check did (including raising on a
\* required field that is present but null).
C9_AllChecksEvaluated ==
    vout.called =>
        /\ DurationCondition(vin.data) => HasWarning(vout.warnings, "duration_long")
        /\ LowSnrCondition(vin.data) => HasWarning(vout.warnings, "low_snr")

ObsExample ==
    ("koi_period" :> Num(100)) @@ ("koi_depth" :> Num(1000))
    @@ ("koi_duration" :> Num(30)) @@ ("koi_impact" :> Num(5))
    @@ ("koi_model_snr" :> Num(150)) @@ ("koi_prad" :> Num(10))
    @@ ("koi_srad" :> Num(10))

\* C10: for period=10.0, depth=100.0, duration=3.0, impact=0.5, snr=15.0, planet
\* radius 1.0 and stellar radius 1.0, validate_input reports a transit-depth
\* inconsistency warning.
C10_ExampleDepthFlagged ==
    (vout.called /\ vin.data = ObsExample) =>
        HasWarning(vout.warnings, "depth_inconsistent")

\* the radius an absent, null or zero koi_srad is replaced by (1.0)
EffectiveSrad(data) ==
    IF IsNum(data, "koi_srad") /\ data["koi_srad"].v # 0 THEN data["koi_srad"].v ELSE 10

\* observed depth above twice, or below half, the expected depth (Rp/Rs)^2 * 1e6 ppm
DeviatesByFactorTwo(depth, prad, srad) ==
    \/ depth * srad * srad > 2 * prad * prad * 10000000
    \/ 2 * depth * srad * srad < prad * prad * 10000000

\* C11: for an observation with positive depth and positive planet radius whose
\* validation raised no error, the depth-inconsistency warning is reported exactly
\* when the observed depth is more than twice, or less than half, the expected depth.
C11_DepthFactorOfTwo ==
    (/\ vout.called
     /\ ~HasWarning(vout.warnings, "validation_error")
     /\ IsNum(vin.data, "koi_depth") /\ vin.data["koi_depth"].v > 0
     /\ IsNum(vin.data, "koi_prad") /\ vin.data["koi_prad"].v > 0) =>
        (HasWarning(vout.warnings, "depth_inconsistent")
            <=> DeviatesByFactorTwo(vin.data["koi_depth"].v, vin.data["koi_prad"].v,
                                    EffectiveSrad(vin.data)))

(***************************************************************************)
(* Properties of the service                                               *)
(***************************************************************************)
Ready(s) == s.pc = "done" /\ s.models_loaded
Degraded(s) == s.pc = "done" /\ ~s.models_loaded

IsErrorResult(r) ==
    /\ r.prediction = "ERROR"
    /\ r.confidence = 0
    /\ DOMAIN r.probabilities = {"ERROR"}
    /\ r.probabilities["ERROR"] = 100

\* C1: predict_batch returns one result per input row, the result at position i
\* being the result of predict for row i: at every point of the loop the results
\* so far are those of the rows processed so far, in order, and the list returned
\* has the length of the input, on a Ready and on a Degraded store alike.
C1_BatchResultsInOrder ==
    /\ batch.pc = "loop" =>
        /\ Len(batch.results) = batch.i
        /\ \A i \in 1..batch.i :
              batch.results[i] = predict(stores["batch"], batch.data[i]).result
    /\ response.kind = "batch" =>
        /\ Len(response.results) = Len(response.data)
        /\ \A i \in 1..Len(response.data) :
              response.results[i] = predict(stores["batch"], response.data[i]).result

\* a batch of two different rows was returned, one row failed and one did not
C1_Witness ==
    /\ response.kind = "batch"
    /\ Len(response.data) >= 2
    /\ response.data[1] # response.data[2]
    /\ \E i, j \in 1..Len(response.results) :
          /\ response.results[i].prediction = "ERROR"
          /\ response.results[j].prediction # "ERROR"

\* a failure while synthesizing features, scoring or ranking the row
RowFails(s, data) == FeatureFault(data) \/ predict(s, data).result.prediction = "ERROR"

\* C2: in predict_batch on a Ready store, a failure while synthesizing features,
\* scoring or ranking row i becomes an ERROR result at position i only: every row
\* has its result, and every other row has the result predict gives it on its own.
C2_RowFailureBecomesError ==
    (response.kind = "batch" /\ Ready(stores["batch"])) =>
        \A i \in 1..Len(response.data) :
            RowFails(stores["batch"], response.data[i]) =>
                /\ Len(response.results) = Len(response.data)
                /\ response.results[i].prediction = "ERROR"
                /\ \A j \in (1..Len(response.data)) \ {i} :
                      response.results[j]
                          = predict(stores["batch"], response.data[j]).result

\* C12: in a batch of three rows on a Ready store where feature engineering faults
\* on row 2 only, predict_batch returns three results, row 2 is labeled ERROR and
\* rows 1 and 3 have the results they get when processed alone.
C12_FaultedRowLabeledError ==
    (/\ response.kind = "batch"
     /\ Ready(stores["batch"])
     /\ Len(response.data) = 3
     /\ FeatureFault(response.data[2])
     /\ ~FeatureFault(response.data[1])
     /\ ~FeatureFault(response.data[3])) =>
        /\ Len(response.results) = 3
        /\ response.results[2].prediction = "ERROR"
        /\ response.results[1] = predict(stores["batch"], response.data[1]).result
        /\ response.results[3] = predict(stores["batch"], response.data[3]).result

\* the largest entry of 0.6 * a + 0.4 * b, in hundredths
LargestBlend(a, b) ==
    CHOOSE v \in {6 * a[i] + 4 * b[i] : i \in 1..3} :
        \A i \in 1..3 : 6 * a[i] + 4 * b[i] <= v

\* C13: when feature engineering fails on an observation, engineer_features returns
\* the all-zero vector with every slot in the fixed order, and predict on a Ready
\* store passes that vector to the sub-models: sub-model A is invoked on it, sub-model
\* B too once A has answered, and a result that is not ERROR is the score of the
\* all-zero vector.
C13_FaultFallsBackToZeros ==
    (/\ response.kind = "predict"
     /\ Ready(stores["prediction"])
     /\ FeatureFault(response.data)) =>
        LET s == stores["prediction"]
            f == engineer_features(response.data)
            a == s.rf_model.proba["zero"]
            b == s.xgb_model.proba["zero"]
        IN  /\ f.zero
            /\ \A c \in DOMAIN f.base : f.base[c] = 0
            /\ f.columns = s.all_features
            /\ f.columns = engineer_features(ObsNominal).columns
            /\ probaCalls >= 1
            /\ ~a.raises => probaCalls = 2
            /\ response.result.prediction # "ERROR" =>
                  /\ ~a.raises /\ ~b.raises
                  /\ response.result.confidence = LargestBlend(a.p, b.p)

\* a faulted observation was scored on a Ready store and got a class label
C13_Witness ==
    /\ response.kind = "predict"
    /\ Ready(stores["prediction"])
    /\ FeatureFault(response.data)
    /\ probaCalls = 2
    /\ response.result.prediction # "ERROR"

\* C14 as stated: every feature vector has 26 slots, 15 base features followed by
\* 11 derived features.
C14_TwentySixSlots ==
    (response.kind = "predict" /\ Ready(stores["prediction"])) =>
        LET columns == engineer_features(response.data).columns
        IN  /\ Len(columns) = 26
            /\ \A i \in 1..15 : \E j \in DOMAIN BaseFeatures : columns[i] = BaseFeatures[j]
            /\ \A i \in 16..26 :
                  \E j \in DOMAIN EngineeredFeatures : columns[i] = EngineeredFeatures[j]

\* C14 amended: every feature vector produced by engineer_features, on the normal
\* path and on the all-zero fallback, has 27 slots: the 16 base features that have
\* a default, followed by the 11 engineered features, always in the same order.
C14_TwentySevenSlots ==
    (response.kind = "predict" /\ Ready(stores["prediction"])) =>
        LET f == engineer_features(response.data)
        IN  /\ Len(f.columns) = 27
            /\ Len(BaseFeatures) = 16
            /\ Len(EngineeredFeatures) = 11
            /\ f.columns = BaseFeatures \o EngineeredFeatures
            /\ f.columns = stores["prediction"].all_features

\* an observation without any field was given its vector of defaults and scored
C14_Witness ==
    /\ response.kind = "predict"
    /\ Ready(stores["prediction"])
    /\ response.data = ObsEmpty
    /\ ~engineer_features(response.data).zero
    /\ response.result.prediction # "ERROR"

\* C3: on a Degraded store every predict call and every row of predict_batch
\* returns label ERROR, confidence 0.0 and distribution {ERROR: 1.0}, and no
\* predict_proba is invoked.
C3_DegradedShortCircuits ==
    /\ (response.kind = "predict" /\ Degraded(stores["prediction"])) =>
        IsErrorResult(response.result) /\ probaCalls = 0
    /\ (batch.pc = "loop" /\ Degraded(stores["batch"])) =>
        /\ \A i \in 1..Len(batch.results) : IsErrorResult(batch.results[i])
        /\ probaCalls = 0
    /\ (response.kind = "batch" /\ Degraded(stores["batch"])) =>
        /\ Len(response.results) = Len(response.data)
        /\ \A i \in 1..Len(response.results) : IsErrorResult(response.results[i])
        /\ probaCalls = 0

\* a batch of two rows was answered by a Degraded store that holds both sub-models
C3_Witness ==
    /\ response.kind = "batch"
    /\ Degraded(stores["batch"])
    /\ stores["batch"].rf_model.kind # "None"
    /\ stores["batch"].xgb_model.kind # "None"
    /\ Len(response.results) >= 2

\* the store states a construction may pass through
LoadTransitions ==
    {<<"Absent", "Unloaded">>, <<"Unloaded", "Loading">>, <<"Loading", "Loading">>,
     <<"Loading", "Ready">>, <<"Loading", "Degraded">>,
     <<"Ready", "Ready">>, <<"Degraded", "Degraded">>}

LoadStepsAllowed ==
    \A m \in Modules :
        stores'[m] # stores[m] =>
            <<StoreState(stores[m]), StoreState(stores'[m])>> \in LoadTransitions

ReadyIffAllLoaded ==
    \A m \in Modules :
        stores[m].pc \in {"returned", "done"} =>
            /\ stores[m].models_loaded <=>
                  /\ stores[m].rf_model.kind # "None"
                  /\ stores[m].xgb_model.kind # "None"
                  /\ stores[m].feature_bounds.kind # "None"
            /\ (files.rf.state # "ok" \/ files.xgb.state # "ok"
                \/ files.bounds.state = "corrupt") => ~stores[m].models_loaded

\* C4: a store goes Unloaded -> Loading -> Ready or Unloaded -> Loading -> Degraded
\* and then stays there; once _load_models has returned it is Ready exactly when
\* sub-model A, sub-model B and the bounds table are all loaded, and it is Degraded
\* when a sub-model file or the bounds file failed to load.
C4_LoadStateMachine == [][LoadStepsAllowed]_vars /\ []ReadyIffAllLoaded

\* a store became Ready with a loaded bounds file, and another directory would fail
C4_Witness ==
    \E m \in Modules :
        /\ Ready(stores[m])
        /\ files.bounds.state = "ok"
        /\ stores[m].feature_bounds = BoundsOf(CustomBounds)

\* C5: the model store is constructed once per process, and the health, prediction
\* and batch endpoints are all served by that one instance.
C5_SingleStore ==
    /\ loads <= 1
    /\ \A m, n \in Modules :
          (stores[m].pc # "none" /\ stores[n].pc # "none") => stores[m].id = stores[n].id

\* C6: once the constructor has returned, no operation changes any field of the
\* store: a Ready store stays Ready and a Degraded store stays Degraded.
C6_StoreImmutable ==
    [][\A m \in Modules : stores[m].pc = "done" => stores'[m] = stores[m]]_vars

\* a Ready store has answered a prediction that failed, and a batch
C6_Witness ==
    /\ Ready(stores["prediction"])
    /\ response.kind = "predict"
    /\ response.result.prediction = "ERROR"
    /\ Ready(stores["batch"])

MaxProbability(probabilities) ==
    CHOOSE p \in {probabilities[l] : l \in DOMAIN probabilities} :
        \A l \in DOMAIN probabilities : probabilities[l] <= p

\* the index (from 0) of the first class name equal to label
ClassIndex(class_names, label) ==
    (CHOOSE i \in 1..Len(class_names) :
        class_names[i] = label /\ \A j \in 1..(i - 1) : class_names[j] # label) - 1

\* C7: the label of every non-ERROR result is the key with the largest probability
\* of the returned distribution, the lowest class index winning a tie.
C7_LabelIsArgmax ==
    (response.kind = "predict" /\ response.result.prediction # "ERROR") =>
        LET r == response.result
            names == stores["prediction"].class_names
        IN  /\ r.prediction \in DOMAIN r.probabilities
            /\ r.probabilities[r.prediction] = MaxProbability(r.probabilities)
            /\ \A l \in DOMAIN r.probabilities :
                  r.probabilities[l] = MaxProbability(r.probabilities) =>
                      ClassIndex(names, r.prediction) <= ClassIndex(names, l)

IsBijectionOverClasses(map) ==
    /\ DOMAIN map = {0, 1, 2}
    /\ \A i, j \in DOMAIN map : i # j => map[i] # map[j]

\* C8: a store that loading hands over as Ready has an index-to-label map that is
\* a bijection over {0, 1, 2}: a supplied association that is not one makes loading
\* fail instead of producing a store that serves predictions.
C8_TargetMapBijection ==
    \A m \in Modules : Ready(stores[m]) => IsBijectionOverClasses(stores[m].target_map)

\* what the sub-models answer for the observation's feature vector
AnswerA(s, data) == predict_proba(s.rf_model, engineer_features(data))
AnswerB(s, data) == predict_proba(s.xgb_model, engineer_features(data))

\* a step after validation fails for the observation: a sub-model raises, the
\* largest blended class has no label, or a class has no name
ScoringFails(s, data) ==
    \/ AnswerA(s, data).raises
    \/ AnswerB(s, data).raises
    \/ \E i \in 1..3 :
          /\ 6 * AnswerA(s, data).p[i] + 4 * AnswerB(s, data).p[i]
                = LargestBlend(AnswerA(s, data).p, AnswerB(s, data).p)
          /\ \A j \in 1..(i - 1) :
                6 * AnswerA(s, data).p[j] + 4 * AnswerB(s, data).p[j]
                    < LargestBlend(AnswerA(s, data).p, AnswerB(s, data).p)
          /\ (i - 1) \notin DOMAIN s.target_map
    \/ Len(s.class_names) < 3

\* every field at the default engineer_features fills in
ObsDefaults ==
    ("koi_period" :> Num(100)) @@ ("koi_depth" :> Num(1000))
    @@ ("koi_duration" :> Num(30)) @@ ("koi_impact" :> Num(5))
    @@ ("koi_model_snr" :> Num(100)) @@ ("koi_prad" :> Num(10))
    @@ ("koi_srad" :> Num(10))

\* C15: validation never rejects an observation or halts the pipeline: on a Ready
\* store predict invokes the scorer for every observation, whatever its warnings,
\* and the result is ERROR only when a step after validation fails; an observation
\* missing all three required fields carries at least one warning and, when not
\* ERROR, has the label, confidence, distribution and light curve of the observation
\* that holds the defaults.
C15_ValidationNeverRejects ==
    (response.kind = "predict" /\ Ready(stores["prediction"])) =>
        LET s == stores["prediction"]
            r == response.result
            d == predict(s, ObsDefaults).result
        IN  /\ probaCalls >= 1
            /\ r.prediction = "ERROR" => ScoringFails(s, response.data)
            /\ response.data = ObsEmpty =>
                  /\ Len(validate_input(s.feature_bounds, response.data)) >= 1
                  /\ r.prediction # "ERROR" =>
                        /\ Len(r.validation_warnings) >= 1
                        /\ r.prediction = d.prediction
                        /\ r.confidence = d.confidence
                        /\ r.probabilities = d.probabilities
                        /\ r.light_curve_params = d.light_curve_params

\* an observation without any field got warnings and a class label
C15_Witness ==
    /\ response.kind = "predict"
    /\ Ready(stores["prediction"])
    /\ response.data = ObsEmpty
    /\ Len(response.result.validation_warnings) >= 3
    /\ response.result.prediction # "ERROR"

\* C16: on a Ready store every warning validate_input produces for the observation
\* is among the validation_warnings of the result predict returns, whatever the
\* later steps do.
C16_WarningsAttached ==
    (response.kind = "predict" /\ Ready(stores["prediction"])) =>
        LET w == validate_input(stores["prediction"].feature_bounds, response.data)
            got == response.result.validation_warnings
        IN  \A i \in 1..Len(w) : \E j \in 1..Len(got) : got[j] = w[i]

IsReservedResult(r) ==
    /\ IsErrorResult(r)
    /\ r.feature_importance = <<>>
    /\ r.light_curve_params = <<>>

\* C17: predict always returns a result; when a sub-model is unavailable (the store
\* is Degraded) or a sub-model call, the label lookup or the ranking fails, the
\* result is the reserved one: label ERROR, confidence 0.0, distribution
\* {ERROR: 1.0}, no feature importance and no light-curve parameters.
C17_FailureGivesReservedResult ==
    /\ response.kind = "predict" =>
        LET s == stores["prediction"]
        IN  (Degraded(s) \/ (Ready(s) /\ ScoringFails(s, response.data)))
                => IsReservedResult(response.result)
    /\ response.kind = "batch" =>
        LET s == stores["batch"]
        IN  \A i \in 1..Len(response.results) :
                (Degraded(s) \/ (Ready(s) /\ ScoringFails(s, response.data[i])))
                    => IsReservedResult(response.results[i])

\* a Ready store whose label map lacks the winning class index answered ERROR
C17_Witness ==
    /\ response.kind = "predict"
    /\ Ready(stores["prediction"])
    /\ ~AnswerA(stores["prediction"], response.data).raises
    /\ ~AnswerB(stores["prediction"], response.data).raises
    /\ ScoringFails(stores["prediction"], response.data)
    /\ IsReservedResult(response.result)

\* C18: the label of every result is FALSE POSITIVE, CANDIDATE, CONFIRMED or the
\* reserved ERROR, whatever metadata was loaded, and the batch endpoint's per-class
\* counting does not fail on the label of a row.
C18_LabelInClosedSet ==
    /\ response.kind = "predict" =>
          response.result.prediction
              \in {"FALSE POSITIVE", "CANDIDATE", "CONFIRMED", "ERROR"}
    /\ response.kind = "batch" =>
          /\ \A i \in 1..Len(response.results) :
                response.results[i].prediction
                    \in {"FALSE POSITIVE", "CANDIDATE", "CONFIRMED", "ERROR"}
          /\ response.http.exception # "KeyError"

\* the result r of observation data on store s carries the blend of the two
\* sub-model distributions: one entry per class, 0.6 * A + 0.4 * B, summing to 1
BlendReturned(s, data, r) ==
    LET a == AnswerA(s, data).p
        b == AnswerB(s, data).p
    IN  /\ a[1] + a[2] + a[3] = 10
        /\ b[1] + b[2] + b[3] = 10
        /\ Cardinality(DOMAIN r.probabilities) = 3
        /\ \A i \in 1..3 :
              /\ s.class_names[i] \in DOMAIN r.probabilities
              /\ r.probabilities[s.class_names[i]] = 6 * a[i] + 4 * b[i]
        /\ r.probabilities[s.class_names[1]] + r.probabilities[s.class_names[2]]
              + r.probabilities[s.class_names[3]] = 100

\* C19: the blend weights are 0.6 and 0.4 and sum to 1, and every result that is
\* not ERROR carries one probability per class, 0.6 * A + 0.4 * B of the two
\* sub-model distributions, the three summing to 1.
C19_BlendSumsToOne ==
    /\ \A m \in Modules :
          stores[m].pc # "none" =>
              /\ stores[m].rf_weight = 6 /\ stores[m].xgb_weight = 4
              /\ stores[m].rf_weight + stores[m].xgb_weight = 10
    /\ (response.kind = "predict" /\ response.result.prediction # "ERROR") =>
          BlendReturned(stores["prediction"], response.data, response.result)
    /\ response.kind = "batch" =>
          \A i \in 1..Len(response.results) :
              response.results[i].prediction # "ERROR" =>
                  BlendReturned(stores["batch"], response.data[i], response.results[i])

\* a result blends two sub-model distributions that differ
C19_Witness ==
    /\ response.kind = "predict"
    /\ response.result.prediction # "ERROR"
    /\ AnswerA(stores["prediction"], response.data).p
          # AnswerB(stores["prediction"], response.data).p
    /\ Cardinality({response.result.probabilities[l] :
                        l \in DOMAIN response.result.probabilities}) = 3

\* the confidence of result r of observation data on store s
ConfidenceOk(s, data, r) ==
    /\ 0 <= r.confidence /\ r.confidence <= 100
    /\ r.prediction = "ERROR" => r.confidence = 0
    /\ r.prediction # "ERROR" =>
          LET a == AnswerA(s, data).p
              b == AnswerB(s, data).p
          IN  /\ r.confidence = LargestBlend(a, b)
              /\ \E k \in 1..3 :
                    /\ 6 * a[k] + 4 * b[k] = r.confidence
                    /\ (k - 1) \in DOMAIN s.target_map
                    /\ s.target_map[k - 1] = r.prediction

\* C20: the confidence of every result of predict and predict_batch lies in [0, 1];
\* it is the blended probability at the predicted class index when the result is
\* not ERROR, and exactly 0 when it is.
C20_ConfidenceIsBlendAtArgmax ==
    /\ response.kind = "predict" =>
          ConfidenceOk(stores["prediction"], response.data, response.result)
    /\ batch.pc = "loop" =>
          \A i \in 1..Len(batch.results) :
              ConfidenceOk(stores["batch"], batch.data[i], batch.results[i])
    /\ response.kind = "batch" =>
          \A i \in 1..Len(response.results) :
              ConfidenceOk(stores["batch"], response.data[i], response.results[i])

\* a batch came back with a failed row and a row whose confidence is below 1
C20_Witness ==
    /\ response.kind = "batch"
    /\ \E i, j \in 1..Len(response.results) :
          /\ response.results[i].prediction = "ERROR"
          /\ response.results[i].confidence = 0
          /\ response.results[j].prediction # "ERROR"
          /\ response.results[j].confidence > 0
          /\ response.results[j].confidence < 100

\* the value of field f the light curve is to report: the supplied number, or the
\* feature-engineering default when the field is absent or null
SuppliedOrDefault(data, f) == IF IsNum(data, f) THEN data[f].v ELSE feature_defaults[f]

\* C21: for an observation whose period, depth, duration and impact are each a
\* number, null or absent, generate_light_curve_params reports for each field the
\* supplied number, or the feature-engineering default (10.0, 100.0, 3.0, 0.5) when
\* that field is absent or null, whatever the other fields are.
C21_LightCurveFieldDefaults ==
    (/\ vout.called
     /\ \A f \in DOMAIN vin.data : vin.data[f].kind # "str") =>
        /\ vout.params.period_days = SuppliedOrDefault(vin.data, "koi_period")
        /\ vout.params.depth_ppm = SuppliedOrDefault(vin.data, "koi_depth")
        /\ vout.params.duration_hours = SuppliedOrDefault(vin.data, "koi_duration")
        /\ vout.params.impact_parameter = SuppliedOrDefault(vin.data, "koi_impact")

\* reading the metadata file does not raise
MetadataLoads(file) ==
    \/ file.state = "absent"
    \/ /\ file.state = "ok"
       /\ ~(file.content.has_target_map /\ Len(file.content.items) = 0)

IsTopTen(s, ranking) ==
    LET names == s.all_features
        imp == s.rf_model.importances
        n == IF Len(names) < Len(imp) THEN Len(names) ELSE Len(imp)
        slot(k) == CHOOSE i \in 1..n : names[i] = ranking[k].name
        ranked == {slot(k) : k \in 1..Len(ranking)}
    IN  /\ Len(ranking) = (IF n < 10 THEN n ELSE 10)
        /\ \A k \in 1..Len(ranking) :
              /\ \E i \in 1..n : names[i] = ranking[k].name
              /\ ranking[k].importance = imp[slot(k)]
        /\ \A k \in 1..(Len(ranking) - 1) :
              \/ ranking[k].importance > ranking[k + 1].importance
              \/ /\ ranking[k].importance = ranking[k + 1].importance
                 /\ slot(k) < slot(k + 1)
        /\ \A i \in (1..n) \ ranked :
              \/ imp[i] < ranking[Len(ranking)].importance
              \/ /\ imp[i] = ranking[Len(ranking)].importance
                 /\ i > slot(Len(ranking))

\* C23: the feature-importance ranking of every result that is not ERROR holds the
\* ten features with the highest importance of the random forest, in descending
\* order, equal importances in feature order, and is the same for every row of a
\* batch whatever the observation.
C23_RankingIsTopTen ==
    /\ (response.kind = "predict" /\ response.result.prediction # "ERROR") =>
          IsTopTen(stores["prediction"], response.result.feature_importance)
    /\ response.kind = "batch" =>
          \A i, j \in 1..Len(response.results) :
              (/\ response.results[i].prediction # "ERROR"
               /\ response.results[j].prediction # "ERROR") =>
                  /\ IsTopTen(stores["batch"], response.results[i].feature_importance)
                  /\ response.results[i].feature_importance
                        = response.results[j].feature_importance

\* a ranking was returned from a forest whose importances hold ties across the cut
C23_Witness ==
    /\ response.kind = "predict"
    /\ response.result.prediction # "ERROR"
    /\ Len(response.result.feature_importance) = 10
    /\ \E i \in 11..27 :
          stores["prediction"].rf_model.importances[i]
              = response.result.feature_importance[10].importance

HasBoundsWarning(warnings, f) ==
    \E i \in 1..Len(warnings) :
        warnings[i].kind = "out_of_bounds" /\ warnings[i].feature = f

\* C24: for every feature of the observation that has a number and is in the bounds
\* table, validate_input reports an out-of-bounds warning exactly when the number is
\* strictly below min or strictly above max; a feature that is not in the bounds
\* table is never reported.
C24_BoundsWarningExact ==
    vout.called =>
        \A f \in DOMAIN vin.data :
            LET bounded == vin.bounds.kind = "dict" /\ f \in DOMAIN vin.bounds.table
            IN  /\ (bounded /\ IsNum(vin.data, f)) =>
                      (HasBoundsWarning(vout.warnings, f)
                          <=> \/ vin.data[f].v < vin.bounds.table[f].min
                              \/ vin.data[f].v > vin.bounds.table[f].max)
                /\ ~bounded => ~HasBoundsWarning(vout.warnings, f)

\* C25: validate_input reports the low-SNR warning exactly when the observation's
\* signal-to-noise value is below 7; an observation without a signal-to-noise value
\* is taken at the feature-engineering default (10.0) and not reported.
C25_LowSnrExact ==
    vout.called =>
        /\ IsNum(vin.data, "koi_model_snr") =>
              (HasWarning(vout.warnings, "low_snr")
                  <=> vin.data["koi_model_snr"].v < 70)
        /\ "koi_model_snr" \notin DOMAIN vin.data =>
              /\ feature_defaults["koi_model_snr"] >= 70
              /\ ~HasWarning(vout.warnings, "low_snr")

\* the value a table entry reports for a field of the uploaded row: the row's value,
\* 0 for a column the upload does not have
RowValue(row, f) == IF f \in DOMAIN row THEN row[f] ELSE Num(0)

EqualRowsEqualResults(data, results) ==
    \A i, j \in 1..Len(results) : data[i] = data[j] => results[i] = results[j]

C28_ExplanationNamesLabel ==
    response.kind = "predict" =>
        /\ response.explanation.disposition = "FALSE POSITIVE" =>
              response.result.prediction = "FALSE POSITIVE"
        /\ response.result.prediction = "ERROR" =>
              response.explanation.disposition
                  \notin {"CONFIRMED", "CANDIDATE", "FALSE POSITIVE"}

\* the artifacts the predictor needs are in the directory
PredictorFilesPresent(dir) ==
    /\ Exists(PathOf(dir, "random_forest.model"))
    /\ Exists(PathOf(dir, "xgboost.model"))
    /\ Exists(PathOf(dir, "ensemble_metadata.model"))

\* C29: check_models reports that all required models are found exactly when
\* random_forest.model, xgboost.model and ensemble_metadata.model are present in
\* the directory, and it reports nothing missing for a directory from which a
\* predictor reaches Ready.
C29_StartupCheckMatchesPredictor ==
    response.kind = "startup" =>
        /\ response.all_found <=> PredictorFilesPresent(files)
        /\ \A m \in Modules : Ready(stores[m]) => response.all_found

\* C30: the batch endpoint predicts at most MAX_BATCH_SIZE rows of an upload: an
\* upload with more rows is rejected and none of its rows is predicted.
C30_BatchSizeLimit ==
    response.kind = "upload" =>
        /\ response.predicted <= MAX_BATCH_SIZE
        /\ response.upload.rows > MAX_BATCH_SIZE =>
              response.status = 400 /\ response.predicted = 0

====
